---------------------------- MODULE Spec2Model ----------------------------
(***************************************************************************)
(* Model of the Leftover Recipe Finder backend (the Express server whose   *)
(* text follows RecipeCard.js in src/client/src/components/RecipeCard.js). *)
(*                                                                         *)
(* A JavaScript string is modelled as a sequence of one-character strings, *)
(* so that toLowerCase, the regular expressions, split and join are        *)
(* computed character by character.  A JavaScript object with optional     *)
(* properties is a function whose DOMAIN is the set of properties present. *)
(***************************************************************************)
EXTENDS Integers, Sequences, FiniteSets, TLC

(***************************************************************************)
(* Characters and strings                                                  *)
(***************************************************************************)
UpperLetters == <<"A","B","C","D","E","F","G","H","I","J","K","L","M",
                  "N","O","P","Q","R","S","T","U","V","W","X","Y","Z">>
LowerLetters == <<"a","b","c","d","e","f","g","h","i","j","k","l","m",
                  "n","o","p","q","r","s","t","u","v","w","x","y","z">>
Digits == <<"0","1","2","3","4","5","6","7","8","9">>
\* the characters matched by \s that the inputs of the model use
Whitespace == {" ", "\t", "\n"}

Range(s) == {s[i] : i \in DOMAIN s}
Min(a, b) == IF a < b THEN a ELSE b
Max(a, b) == IF a > b THEN a ELSE b
IndexIn(c, s) == CHOOSE i \in DOMAIN s : s[i] = c

\* String.prototype.toLowerCase, one character
toLowerChar(c) ==
    IF c \in Range(UpperLetters) THEN LowerLetters[IndexIn(c, UpperLetters)] ELSE c
\* the string in the case it was given
keepCase(s) == s
\* String.prototype.toLowerCase
toLowerCase(s) == [i \in DOMAIN s |-> toLowerChar(s[i])]

\* String.prototype.split(sep) for a one-character separator:
\* "".split(",") is [""], "a,".split(",") is ["a", ""]
RECURSIVE split(_, _)
split(s, sep) ==
    IF \E i \in DOMAIN s : s[i] = sep
    THEN LET i == CHOOSE k \in DOMAIN s : s[k] = sep /\ \A j \in 1..(k-1) : s[j] # sep
         IN  <<SubSeq(s, 1, i-1)>> \o split(SubSeq(s, i+1, Len(s)), sep)
    ELSE <<s>>

\* Array.prototype.join(sep) on an array of strings
RECURSIVE join(_, _)
join(parts, sep) ==
    IF parts = <<>> THEN <<>>
    ELSE IF Len(parts) = 1 THEN parts[1]
    ELSE parts[1] \o <<sep>> \o join(Tail(parts), sep)

\* every element kept, duplicates included
keepAll(arr) == arr
\* [...new Set(arr)]: the first occurrence of each element, in insertion order
RECURSIVE uniq(_)
uniq(arr) ==
    IF arr = <<>> THEN <<>>
    ELSE LET init == uniq(SubSeq(arr, 1, Len(arr) - 1))
             x == arr[Len(arr)]
         IN  IF x \in Range(init) THEN init ELSE Append(init, x)

\* String.prototype.trim
RECURSIVE trim(_)
trim(s) ==
    IF s = <<>> THEN s
    ELSE IF Head(s) \in Whitespace THEN trim(Tail(s))
    ELSE IF s[Len(s)] \in Whitespace THEN trim(SubSeq(s, 1, Len(s) - 1))
    ELSE s

\* whitespace left as it is
collapseNothing(s) == s
\* .replace(/\s+/g, " "): every maximal run of whitespace becomes one space
RECURSIVE collapseSpaces(_)
collapseSpaces(s) ==
    IF s = <<>> THEN s
    ELSE IF Head(s) \in Whitespace
         THEN IF Len(s) > 1 /\ s[2] \in Whitespace
              THEN collapseSpaces(Tail(s))
              ELSE <<" ">> \o collapseSpaces(Tail(s))
         ELSE <<Head(s)>> \o collapseSpaces(Tail(s))

\* .replace(/[^a-z\s]/g, ""): drops every character that is neither a-z nor whitespace
IsLetterOrSpace(c) == c \in Range(LowerLetters) \/ c \in Whitespace
stripSymbols(s) == SelectSeq(s, IsLetterOrSpace)

\* normalizeIngredient trimming before it strips the symbols
normalizeTrimmedFirst(name) ==
    collapseSpaces(stripSymbols(trim(toLowerCase(name))))
\* normalizeIngredient(name)
normalizeIngredient(name) ==
    trim(collapseSpaces(stripSymbols(toLowerCase(name))))

\* String(n) for an integer n, as the template literal of the cache key converts it
RECURSIVE natToString(_)
natToString(n) ==
    IF n < 10 THEN <<Digits[n + 1]>>
    ELSE natToString(n \div 10) \o <<Digits[(n % 10) + 1]>>
numberToString(n) == IF n < 0 THEN <<"-">> \o natToString(-n) ELSE natToString(n)

\* parseInt(s): the integer that the longest prefix [whitespace][sign]digits of s
\* denotes; IsNaNParse(s) when there is no such prefix with a digit
RECURSIVE skipSpace(_)
skipSpace(s) == IF s # <<>> /\ Head(s) \in Whitespace THEN skipSpace(Tail(s)) ELSE s
RECURSIVE digitsValue(_, _)
digitsValue(s, acc) ==
    IF s # <<>> /\ Head(s) \in Range(Digits)
    THEN digitsValue(Tail(s), 10 * acc + (IndexIn(Head(s), Digits) - 1))
    ELSE acc
unsigned(s) == IF s # <<>> /\ Head(s) \in {"+", "-"} THEN Tail(s) ELSE s
IsNaNParse(s) ==
    LET u == unsigned(skipSpace(s)) IN u = <<>> \/ Head(u) \notin Range(Digits)
parseInt(s) ==
    LET t == skipSpace(s)
        v == digitsValue(unsigned(t), 0)
    IN  IF t # <<>> /\ Head(t) = "-" THEN -v ELSE v

\* Array.prototype.slice(0, end)
slice0(arr, end) ==
    LET e == IF end < 0 THEN Max(Len(arr) + end, 0) ELSE Min(end, Len(arr))
    IN  SubSeq(arr, 1, e)


(***************************************************************************)
(* Bounds and inputs of the model                                          *)
(***************************************************************************)
\* number of search requests that arrive in one behaviour
MaxReqs == 3
Reqs == 1..MaxReqs

\* JavaScript's null, for a sourceUrl not yet attached
JsNull == "<null>"
\* an object with one property
Prop(name, value) == name :> value
NoProps == <<>>
Has(obj, name) == name \in DOMAIN obj

\* req.query of the search requests that arrive:
\*   /api/recipes                                      (no ingredients parameter)
\*   /api/recipes?ingredients=                         (empty ingredients)
\*   /api/recipes?ingredients=B,b&number=1&cuisine=It
\*   /api/recipes?ingredients=B,b&number=0
SearchQueries ==
    {NoProps,
     Prop("ingredients", <<>>),
     Prop("ingredients", <<"B", ",", "b">>) @@ Prop("number", <<"1">>)
         @@ Prop("cuisine", <<"I", "t">>),
     Prop("ingredients", <<"B", ",", "b">>) @@ Prop("number", <<"0">>)}

\* records of the external catalog's findByIngredients response; cuisines,
\* usedIngredients and missedIngredients are optional in a record
RawA == [id |-> 1, usedIngredients |-> <<"salt">>,
         missedIngredients |-> <<"egg", "milk">>, cuisines |-> << <<"i", "T">> >>]
RawB == [id |-> 2, usedIngredients |-> <<"salt", "oil">>]
\* response.data of a successful primary call: no record, or both in the catalog's order
CatalogResponses == {<<>>, <<RawA, RawB>>}
\* detail.data of a successful detail lookup of recipe id: with or without a sourceUrl
SourceUrlOf(id) == IF id = 1 THEN "https://a" ELSE "https://b"
DetailResponses(id) == {NoProps, Prop("sourceUrl", SourceUrlOf(id))}

(***************************************************************************)
(* GET /api/recipes: the pure parts of the handler                         *)
(***************************************************************************)
DefaultNumber == 3
\* const number = parseInt(req.query.number) || 3
numberOf(query) ==
    IF Has(query, "number") /\ ~IsNaNParse(query.number) /\ parseInt(query.number) # 0
    THEN parseInt(query.number)
    ELSE DefaultNumber

\* the requested cuisines without the lowercasing
cuisineOfAsGiven(query) ==
    IF Has(query, "cuisine") /\ query.cuisine # <<>>
    THEN split(query.cuisine, ",")
    ELSE <<>>
\* const cuisine = req.query.cuisine ? req.query.cuisine.split(',').map(toLowerCase) : []
cuisineOf(query) ==
    IF Has(query, "cuisine") /\ query.cuisine # <<>>
    THEN LET parts == split(query.cuisine, ",")
         IN  [i \in DOMAIN parts |-> toLowerCase(parts[i])]
    ELSE <<>>

pantry == << <<"s","a","l","t">>, <<"o","i","l">> >>

\* ingredients.split(",").map(normalizeIngredient).filter(Boolean)
cleanIngredientsOf(ingredients) ==
    LET parts == split(ingredients, ",")
        norm == [i \in DOMAIN parts |-> normalizeIngredient(parts[i])]
    IN  SelectSeq(norm, LAMBDA x : x # <<>>)

\* [...new Set([...ingSet, ...pantry])].join(",") with ingSet = [...new Set(cleanIngredients)]
finalIngredientsOf(ingredients) ==
    join(uniq(uniq(cleanIngredientsOf(ingredients)) \o pantry), ",")

\* `${finalIngredients}|${number}|${cuisine.join(",")}`
cacheKeyOf(finalIngredients, number, cuisine) ==
    finalIngredients \o <<"|">> \o numberToString(number) \o <<"|">> \o join(cuisine, ",")

\* obj[name] || dflt for an optional array property
OrElse(obj, name, dflt) == IF Has(obj, name) THEN obj[name] ELSE dflt

\* one element of response.data.map(r => ({...})); title, image, dishTypes and
\* readyInMinutes are copied through and play no part in the handler
shapeRecipe(r, cuisine) ==
    [id |-> r.id,
     cuisines |-> OrElse(r, "cuisines", <<>>),
     usedIngredients |-> OrElse(r, "usedIngredients", <<>>),
     missedIngredients |-> OrElse(r, "missedIngredients", <<>>),
     matchesCuisine |->
         \/ Len(cuisine) = 0
         \/ \E c \in Range(OrElse(r, "cuisines", <<>>)) : toLowerCase(c) \in Range(cuisine),
     sourceUrl |-> JsNull]
shapeRecipes(data, cuisine) == [i \in DOMAIN data |-> shapeRecipe(data[i], cuisine)]

\* detail.data.sourceUrl without the placeholder
sourceUrlOrNull(data) ==
    IF Has(data, "sourceUrl") /\ data.sourceUrl # "" THEN data.sourceUrl ELSE JsNull
\* detail.data.sourceUrl || "#"
sourceUrlOrPlaceholder(data) ==
    IF Has(data, "sourceUrl") /\ data.sourceUrl # "" THEN data.sourceUrl ELSE "#"

scoreOf(a) == Len(a.usedIngredients) - Len(a.missedIngredients)
BoolToInt(b) == IF b THEN 1 ELSE 0
\* the comparator without the cuisine tie-break
compareRecipesByScoreOnly(a, b) == scoreOf(b) - scoreOf(a)
\* the comparator given to recipes.sort
compareRecipes(a, b) ==
    IF scoreOf(b) = scoreOf(a)
    THEN BoolToInt(b.matchesCuisine = TRUE) - BoolToInt(a.matchesCuisine = TRUE)
    ELSE scoreOf(b) - scoreOf(a)

\* Array.prototype.sort(compareRecipes): the stable sort of ECMAScript 2019, as an
\* insertion that moves an element only in front of those the comparator puts after it
RECURSIVE insertSorted(_, _)
insertSorted(sorted, x) ==
    IF sorted = <<>> THEN <<x>>
    ELSE IF compareRecipes(sorted[Len(sorted)], x) > 0
         THEN Append(insertSorted(SubSeq(sorted, 1, Len(sorted) - 1), x), sorted[Len(sorted)])
         ELSE Append(sorted, x)
RECURSIVE sortRecipes(_)
sortRecipes(recipes) ==
    IF recipes = <<>> THEN <<>>
    ELSE insertSorted(sortRecipes(SubSeq(recipes, 1, Len(recipes) - 1)), recipes[Len(recipes)])

\* recipes.sort(...); recipes = recipes.slice(0, number)
rankAndTruncate(recipes, number) == slice0(sortRecipes(recipes), number)

(***************************************************************************)
(* GET /api/recipes: the handler as a process per request.  One action is  *)
(* one run of the handler between two awaits.                              *)
(***************************************************************************)
VARIABLES
    recipeCache,   \* const recipeCache = {}: cache key -> cached recipes
    running,       \* the Node process is up
    sreq,          \* per search request: position, locals, response, calls made
    rankPc,        \* ranking alone: "input", then "ranked"
    rankIn,        \* ranking alone: the recipes given to recipes.sort
    rankOut,       \* ranking alone: the recipes after recipes.sort
    keyPc,         \* key derivation alone: "input", then "derived"
    keyIn,         \* key derivation alone: two ingredients texts and the other parameters
    keyOut,        \* key derivation alone: finalIngredients and cacheKey of the two
    subsCache,     \* const subsCache = {}: lowercase ingredient -> cached substitutes
    subreq,        \* per substitution request: position, locals, response, calls made
    normPc,        \* normalization alone: "input", then "normalized"
    normIn,        \* normalization alone: two ingredient texts
    normOut,       \* normalization alone: their keys, and the key of the first key
    shapePc,       \* shaping alone: "input", then "shaped"
    shapeIn,       \* shaping alone: req.query and one record of the catalog's response
    shapeOut,      \* shaping alone: the shaped recipe
    cleanPc,       \* cleaning alone: "input", then "cleaned"
    cleanIn,       \* cleaning alone: res.data.substitutes
    cleanOut,      \* cleaning alone: uniqueSubs
    subs,          \* recipe card: useState({}), ingredient name -> list displayed
    loadingSubs,   \* recipe card: useState({}), ingredient name -> loading flag
    openSubs,      \* recipe card: useState({}), ingredient name -> list expanded
    inFlight       \* recipe card: per ingredient name, the fetches not yet settled

searchVars == <<recipeCache, running, sreq>>
rankVars == <<rankPc, rankIn, rankOut>>
keyVars == <<keyPc, keyIn, keyOut>>
subsVars == <<subsCache, subreq>>
normVars == <<normPc, normIn, normOut>>
shapeVars == <<shapePc, shapeIn, shapeOut>>
cleanVars == <<cleanPc, cleanIn, cleanOut>>
cardVars == <<subs, loadingSubs, openSubs, inFlight>>
vars == <<recipeCache, running, sreq, rankPc, rankIn, rankOut, keyPc, keyIn, keyOut,
          subsCache, subreq, normPc, normIn, normOut, shapePc, shapeIn, shapeOut,
          cleanPc, cleanIn, cleanOut, subs, loadingSubs, openSubs, inFlight>>

\* a request that has not arrived.  query, cacheKey, recipes, next are the handler's
\* locals and status, body, error its response; the other fields record what the
\* request did: hit (served from the cache), primaryCalls and primary (the calls of
\* findByIngredients and the outcome), detailCalls (the ids looked up), data (the
\* primary response) and detailLog (per detail lookup: whether it threw, and the
\* sourceUrl its response supplied, "" for none)
IdleSearch ==
    [pc |-> "idle", query |-> NoProps, cacheKey |-> <<>>, recipes |-> <<>>, next |-> 0,
     status |-> 0, body |-> <<>>, error |-> "",
     hit |-> FALSE, primaryCalls |-> 0, primary |-> "none", detailCalls |-> <<>>,
     data |-> <<>>, detailLog |-> <<>>]

\* the outer catch answering with an empty list instead of the failure
failedToFetchAsEmptyList == [status |-> 200, body |-> <<>>, error |-> ""]
\* res.status(500).json({ error: 'Failed to fetch recipes' })
failedToFetch == [status |-> 500, body |-> <<>>, error |-> "Failed to fetch recipes"]
\* res.status(400).json({ error: 'Please provide ingredients' })
pleaseProvide == [status |-> 400, body |-> <<>>, error |-> "Please provide ingredients"]
\* res.json(recipes)
jsonRecipes(recipes) == [status |-> 200, body |-> recipes, error |-> ""]
\* the framework's answer to a handler whose promise rejected, where it answers at all
frameworkError == [status |-> 500, body |-> <<>>, error |-> "Internal Server Error"]
\* the inner catch leaving sourceUrl as it was
sourceUrlLeftNull == JsNull
\* catch { recipe.sourceUrl = "#" }
sourceUrlOnError == "#"

Respond(rec, resp) ==
    [rec EXCEPT !.pc = "done", !.status = resp.status, !.body = resp.body,
                !.error = resp.error]

DoneSearches == {r \in Reqs : sreq[r].pc \in {"done", "rejected"}}

\* The handler from its first line to its first await (or its response).  A request
\* without ?ingredients= throws a TypeError at ingredients.split, outside the try block:
\* the async handler's promise rejects, and the rejection is either never handled (no
\* response is sent), or ends the process, or reaches the framework's error handler.
SearchStart(r, q) ==
    /\ running
    /\ sreq[r].pc = "idle"
    /\ \A earlier \in 1..(r - 1) : sreq[earlier].pc # "idle"
    /\ LET rec == [sreq[r] EXCEPT !.query = q] IN
       IF ~Has(q, "ingredients")
       THEN /\ \E outcome \in {"unhandled", "exit", "errorHandler"} :
                 /\ running' = (outcome # "exit")
                 /\ sreq' = [sreq EXCEPT ![r] =
                        IF outcome = "errorHandler" THEN Respond(rec, frameworkError)
                        ELSE [rec EXCEPT !.pc = "rejected"]]
            /\ UNCHANGED recipeCache
       ELSE LET finalIngredients == finalIngredientsOf(q.ingredients)
                cacheKey == cacheKeyOf(finalIngredients, numberOf(q), cuisineOf(q))
                keyed == [rec EXCEPT !.cacheKey = cacheKey]
            IN  /\ sreq' = [sreq EXCEPT ![r] =
                       IF Has(recipeCache, cacheKey)
                       THEN Respond([keyed EXCEPT !.hit = TRUE],
                                    jsonRecipes(recipeCache[cacheKey]))
                       ELSE IF finalIngredients = <<>>
                       THEN Respond(keyed, pleaseProvide)
                       ELSE [keyed EXCEPT !.pc = "awaitPrimary", !.primaryCalls = @ + 1,
                                          !.primary = "pending"]]
                /\ UNCHANGED <<recipeCache, running>>
    /\ UNCHANGED <<subsVars, rankVars, keyVars, normVars, shapeVars, cleanVars, cardVars>>

\* recipes.sort(...), slice, recipeCache[cacheKey] = recipes, res.json(recipes)
Finish(r, rec, recipes) ==
    LET top == rankAndTruncate(recipes, numberOf(rec.query)) IN
    /\ recipeCache' = (rec.cacheKey :> top) @@ recipeCache
    /\ sreq' = [sreq EXCEPT ![r] = Respond([rec EXCEPT !.recipes = recipes], jsonRecipes(top))]

\* the request of the detail lookup of recipes[i], or the end of the loop
DetailOrFinish(r, rec, recipes, i) ==
    IF i <= Len(recipes)
    THEN /\ sreq' = [sreq EXCEPT ![r] =
                [rec EXCEPT !.pc = "awaitDetail", !.recipes = recipes, !.next = i,
                            !.detailCalls = Append(@, recipes[i].id)]]
         /\ UNCHANGED recipeCache
    ELSE Finish(r, rec, recipes)

\* await axios.get(findByIngredients) throws: the outer catch answers
PrimaryThrows(r) ==
    /\ running
    /\ sreq[r].pc = "awaitPrimary"
    /\ sreq' = [sreq EXCEPT ![r] = Respond([sreq[r] EXCEPT !.primary = "threw"], failedToFetch)]
    /\ UNCHANGED <<recipeCache, running>>
    /\ UNCHANGED <<subsVars, rankVars, keyVars, normVars, shapeVars, cleanVars, cardVars>>

\* await axios.get(findByIngredients) resolves with response.data = data
PrimaryResolves(r, data) ==
    /\ running
    /\ sreq[r].pc = "awaitPrimary"
    /\ DetailOrFinish(r, [sreq[r] EXCEPT !.data = data, !.primary = "resolved"],
                      shapeRecipes(data, cuisineOf(sreq[r].query)), 1)
    /\ UNCHANGED running
    /\ UNCHANGED <<subsVars, rankVars, keyVars, normVars, shapeVars, cleanVars, cardVars>>

\* the detail lookup of recipes[next] ends with sourceUrl set to url
DetailEnds(r, threw, data, url) ==
    LET rec == sreq[r]
        i == rec.next
        logged == [rec EXCEPT !.detailLog = Append(@,
                      [threw |-> threw,
                       sourceUrl |-> IF Has(data, "sourceUrl") THEN data.sourceUrl ELSE ""])]
    IN  DetailOrFinish(r, logged, [rec.recipes EXCEPT ![i].sourceUrl = url], i + 1)

\* await axios.get(.../information) resolves with detail.data = data
DetailResolves(r) ==
    /\ running
    /\ sreq[r].pc = "awaitDetail"
    /\ \E data \in DetailResponses(sreq[r].recipes[sreq[r].next].id) :
           DetailEnds(r, FALSE, data, sourceUrlOrPlaceholder(data))
    /\ UNCHANGED running
    /\ UNCHANGED <<subsVars, rankVars, keyVars, normVars, shapeVars, cleanVars, cardVars>>

\* await axios.get(.../information) throws: the inner catch sets the placeholder
DetailThrows(r) ==
    /\ running
    /\ sreq[r].pc = "awaitDetail"
    /\ DetailEnds(r, TRUE, NoProps, sourceUrlOnError)
    /\ UNCHANGED running
    /\ UNCHANGED <<subsVars, rankVars, keyVars, normVars, shapeVars, cleanVars, cardVars>>

SearchNext ==
    \E r \in Reqs :
        \/ \E q \in SearchQueries : SearchStart(r, q)
        \/ PrimaryThrows(r)
        \/ \E data \in CatalogResponses : PrimaryResolves(r, data)
        \/ DetailResolves(r)
        \/ DetailThrows(r)

SearchInit ==
    /\ recipeCache = <<>>
    /\ running = TRUE
    /\ sreq = [r \in Reqs |-> IdleSearch]

(***************************************************************************)
(* GET /api/substitutions                                                  *)
(***************************************************************************)
\* const defaultSubs = {...}: lowercase ingredient -> substitutes
defaultSubs ==
    (<<"m","i","l","k">> :>
        << <<"o","a","t"," ","m","i","l","k">>,
           <<"a","l","m","o","n","d"," ","m","i","l","k">>,
           <<"s","o","y"," ","m","i","l","k">> >>)
    @@ (<<"b","u","t","t","e","r">> :>
        << <<"m","a","r","g","a","r","i","n","e">>,
           <<"c","o","c","o","n","u","t"," ","o","i","l">>,
           <<"o","l","i","v","e"," ","o","i","l">> >>)
    @@ (<<"e","g","g">> :>
        << <<"f","l","a","x"," ","e","g","g">>,
           <<"c","h","i","a"," ","e","g","g">>,
           <<"a","p","p","l","e","s","a","u","c","e">> >>)
    @@ (<<"s","u","g","a","r">> :>
        << <<"h","o","n","e","y">>,
           <<"m","a","p","l","e"," ","s","y","r","u","p">>,
           <<"c","o","c","o","n","u","t"," ","s","u","g","a","r">> >>)
    @@ (<<"c","h","e","e","s","e">> :>
        << <<"n","u","t","r","i","t","i","o","n","a","l"," ","y","e","a","s","t">>,
           <<"v","e","g","a","n"," ","c","h","e","e","s","e">> >>)
    @@ (<<"c","r","e","a","m">> :>
        << <<"c","o","c","o","n","u","t"," ","c","r","e","a","m">>,
           <<"c","a","s","h","e","w"," ","c","r","e","a","m">> >>)
    @@ (<<"f","l","o","u","r">> :>
        << <<"a","l","m","o","n","d"," ","f","l","o","u","r">>,
           <<"o","a","t"," ","f","l","o","u","r">> >>)
    @@ (<<"b","a","s","i","l">> :>
        << <<"o","r","e","g","a","n","o">>,
           <<"t","h","y","m","e">>,
           <<"s","p","i","n","a","c","h">> >>)
    @@ (<<"b","r","o","c","c","o","l","i">> :>
        << <<"c","a","u","l","i","f","l","o","w","e","r">>,
           <<"b","r","u","s","s","e","l","s"," ","s","p","r","o","u","t","s">>,
           <<"a","s","p","a","r","a","g","u","s">> >>)
    @@ (<<"g","a","r","l","i","c">> :>
        << <<"s","h","a","l","l","o","t","s">>,
           <<"g","a","r","l","i","c"," ","p","o","w","d","e","r">>,
           <<"c","h","i","v","e","s">> >>)
    @@ (<<"c","h","i","c","k","e","n">> :>
        << <<"t","o","f","u">>,
           <<"j","a","c","k","f","r","u","i","t">> >>)
    @@ (<<"t","o","m","a","t","o">> :>
        << <<"c","a","n","n","e","d"," ","t","o","m","a","t","o","e","s">>,
           <<"t","o","m","a","t","o"," ","s","a","u","c","e">>,
           <<"t","o","m","a","t","o"," ","p","a","s","t","e"," ","+"," ","w","a","t","e","r">> >>)
    @@ (<<"o","n","i","o","n">> :>
        << <<"s","h","a","l","l","o","t","s">>,
           <<"l","e","e","k","s">>,
           <<"o","n","i","o","n"," ","p","o","w","d","e","r">> >>)
    @@ (<<"p","o","t","a","t","o">> :>
        << <<"s","w","e","e","t"," ","p","o","t","a","t","o">>,
           <<"c","a","u","l","i","f","l","o","w","e","r">>,
           <<"t","u","r","n","i","p","s">> >>)
    @@ (<<"c","a","r","r","o","t">> :>
        << <<"s","w","e","e","t"," ","p","o","t","a","t","o">>,
           <<"b","u","t","t","e","r","n","u","t"," ","s","q","u","a","s","h">>,
           <<"p","a","r","s","n","i","p","s">> >>)
    @@ (<<"b","e","l","l","_","p","e","p","p","e","r">> :>
        << <<"p","o","b","l","a","n","o">>,
           <<"z","u","c","c","h","i","n","i">>,
           <<"c","a","r","r","o","t">> >>)
    @@ (<<"s","p","i","n","a","c","h">> :>
        << <<"k","a","l","e">>,
           <<"a","r","u","g","u","l","a">>,
           <<"c","h","a","r","d">> >>)
    @@ (<<"l","e","m","o","n">> :>
        << <<"l","i","m","e">>,
           <<"v","i","n","e","g","a","r"," ","+"," ","a"," ","p","i","n","c","h"," ","o","f"," ","s","u","g","a","r">> >>)
    @@ (<<"l","i","m","e">> :>
        << <<"l","e","m","o","n">>,
           <<"w","h","i","t","e"," ","v","i","n","e","g","a","r">> >>)
    @@ (<<"r","i","c","e">> :>
        << <<"q","u","i","n","o","a">>,
           <<"c","a","u","l","i","f","l","o","w","e","r"," ","r","i","c","e">> >>)
    @@ (<<"p","a","s","t","a">> :>
        << <<"z","o","o","d","l","e","s">>,
           <<"r","i","c","e"," ","n","o","o","d","l","e","s">>,
           <<"q","u","i","n","o","a">> >>)
    @@ (<<"g","r","o","u","n","d","_","b","e","e","f">> :>
        << <<"t","u","r","k","e","y">>,
           <<"c","h","i","c","k","e","n">>,
           <<"l","e","n","t","i","l","s">> >>)
    @@ (<<"b","e","e","f">> :>
        << <<"m","u","s","h","r","o","o","m","s">>,
           <<"j","a","c","k","f","r","u","i","t">>,
           <<"s","e","i","t","a","n">> >>)
    @@ (<<"f","i","s","h">> :>
        << <<"t","o","f","u">>,
           <<"t","e","m","p","e","h">>,
           <<"c","h","i","c","k","p","e","a","s">> >>)
    @@ (<<"s","o","y","_","s","a","u","c","e">> :>
        << <<"t","a","m","a","r","i">>,
           <<"c","o","c","o","n","u","t"," ","a","m","i","n","o","s">>,
           <<"W","o","r","c","e","s","t","e","r","s","h","i","r","e">> >>)
    @@ (<<"v","i","n","e","g","a","r">> :>
        << <<"l","e","m","o","n"," ","j","u","i","c","e">>,
           <<"l","i","m","e"," ","j","u","i","c","e">> >>)
    @@ (<<"o","i","l">> :>
        << <<"b","u","t","t","e","r">>,
           <<"g","h","e","e">>,
           <<"c","o","c","o","n","u","t"," ","o","i","l">> >>)
    @@ (<<"h","o","n","e","y">> :>
        << <<"m","a","p","l","e"," ","s","y","r","u","p">>,
           <<"a","g","a","v","e">> >>)
    @@ (<<"v","a","n","i","l","l","a">> :>
        << <<"a","l","m","o","n","d"," ","e","x","t","r","a","c","t">>,
           <<"m","a","p","l","e"," ","s","y","r","u","p">> >>)
    @@ (<<"b","r","e","a","d","c","r","u","m","b","s">> :>
        << <<"c","r","u","s","h","e","d"," ","c","r","a","c","k","e","r","s">>,
           <<"r","o","l","l","e","d"," ","o","a","t","s">>,
           <<"p","a","n","k","o">> >>)
    @@ (<<"c","o","r","n","s","t","a","r","c","h">> :>
        << <<"f","l","o","u","r">>,
           <<"a","r","r","o","w","r","o","o","t"," ","p","o","w","d","e","r">>,
           <<"p","o","t","a","t","o"," ","s","t","a","r","c","h">> >>)
    @@ (<<"b","a","k","i","n","g","_","p","o","w","d","e","r">> :>
        << <<"b","a","k","i","n","g"," ","s","o","d","a"," ","+"," ","c","r","e","a","m"," ","o","f"," ","t","a","r","t","a","r">> >>)
    @@ (<<"b","a","k","i","n","g","_","s","o","d","a">> :>
        << <<"b","a","k","i","n","g"," ","p","o","w","d","e","r"," ","(","u","s","e"," ","3","x"," ","a","m","o","u","n","t",")">> >>)

\* the all-lowercase names that every plain object inherits from Object.prototype with
\* a function as value: obj[name] is truthy for them whatever obj holds, and
\* JSON.stringify leaves a property with such a value out
InheritedNames == {<<"c","o","n","s","t","r","u","c","t","o","r">>}
\* obj[key] is truthy, for an object whose own values are arrays
Truthy(obj, key) == key \in DOMAIN obj \/ key \in InheritedNames

\* `No known substitutes for ${ingredient}`
noKnownSubstitutes(ingredient) ==
    <<"N","o"," ","k","n","o","w","n"," ","s","u","b","s","t","i","t","u","t","e","s"," ","f","o","r"," ">> \o ingredient
\* "Please provide an ingredient name"
pleaseProvideIngredient == <<"P","l","e","a","s","e"," ","p","r","o","v","i","d","e"," ","a","n"," ","i","n","g","r","e","d","i","e","n","t"," ","n","a","m","e">>

\* req.query of the substitution requests that arrive: no ingredient parameter,
\* ingredient=, ingredient=Milk, ingredient=kale, ingredient=Kale, ingredient=constructor
SubsQueries ==
    {NoProps, Prop("ingredient", <<>>), Prop("ingredient", <<"M","i","l","k">>),
     Prop("ingredient", <<"k","a","l","e">>), Prop("ingredient", <<"K","a","l","e">>),
     Prop("ingredient", <<"c","o","n","s","t","r","u","c","t","o","r">>)}
\* substitutes of a successful response of the external catalog: [],
\* ["1 cup = 1 cup chard", "chard"] or ["2 cups"]
SubstituteLists ==
    {<<>>, <<<<"1"," ","c","u","p"," ","="," ","1"," ","c","u","p"," ","c","h","a","r","d">>, <<"c","h","a","r","d">>>>,
     <<<<"2"," ","c","u","p","s">>>>}
\* response.data of the external substitution call
SubsResponses ==
    {Prop("status", "failure"), Prop("status", "success")}
        \cup {Prop("status", "success") @@ Prop("substitutes", l) : l \in SubstituteLists}

\* a request that has not arrived.  query and lower are the handler's locals, status
\* and body its response; the other fields record what the request did: tier (the
\* tier that answered), consulted (the tiers in the order consulted), externalCalls
\* and external (the calls of the external catalog and the outcome), data (the
\* response.data of the external call) and shown (the list the recipe card stores for
\* display once it has the answer)
IdleSubs ==
    [pc |-> "idle", query |-> NoProps, lower |-> <<>>, status |-> 0, body |-> NoProps,
     tier |-> "none", consulted |-> <<>>, externalCalls |-> 0, external |-> "none",
     data |-> NoProps, shown |-> <<>>]

\* the 400 answer with an empty body
missingIngredientEmptyBody == [status |-> 400, body |-> NoProps]
\* res.status(400).json({ substitutes: ["Please provide an ingredient name"] })
missingIngredient == [status |-> 400, body |-> Prop("substitutes", <<pleaseProvideIngredient>>)]
\* the sentinel sent as a server error
noKnownAsError(ingredient) ==
    [status |-> 500,
     body |-> Prop("ingredient", ingredient)
                  @@ Prop("substitutes", <<noKnownSubstitutes(ingredient)>>)]
\* res.json({ ingredient, substitutes: [`No known substitutes for ${ingredient}`] })
noKnown(ingredient) ==
    [status |-> 200,
     body |-> Prop("ingredient", ingredient)
                  @@ Prop("substitutes", <<noKnownSubstitutes(ingredient)>>)]
\* res.json({ ingredient, substitutes: obj[lower] }): an inherited function is left out
jsonFrom(obj, lower, ingredient) ==
    [status |-> 200,
     body |-> IF lower \in DOMAIN obj
              THEN Prop("ingredient", ingredient) @@ Prop("substitutes", obj[lower])
              ELSE Prop("ingredient", ingredient)]

\* tierLookup with the dictionary asked before the cache
tierLookupDictionaryFirst(cache, lower) ==
    IF Truthy(defaultSubs, lower)
    THEN [tier |-> "dictionary", consulted |-> <<"dictionary">>]
    ELSE IF Truthy(cache, lower)
    THEN [tier |-> "cache", consulted |-> <<"dictionary", "cache">>]
    ELSE [tier |-> "external", consulted |-> <<"dictionary", "cache", "external">>]
\* tierLookup without the dictionary tier
tierLookupWithoutDictionary(cache, lower) ==
    IF Truthy(cache, lower)
    THEN [tier |-> "cache", consulted |-> <<"cache">>]
    ELSE [tier |-> "external", consulted |-> <<"cache", "external">>]
\* if (subsCache[lower]) ... if (defaultSubs[lower]) ... else the external call:
\* the tier that answers and the tiers consulted on the way
tierLookup(cache, lower) ==
    IF Truthy(cache, lower)
    THEN [tier |-> "cache", consulted |-> <<"cache">>]
    ELSE IF Truthy(defaultSubs, lower)
    THEN [tier |-> "dictionary", consulted |-> <<"cache", "dictionary">>]
    ELSE [tier |-> "external", consulted |-> <<"cache", "dictionary", "external">>]

RespondSubs(rec, resp) == [rec EXCEPT !.pc = "done", !.status = resp.status, !.body = resp.body]

\* The handler from its first line to its await (or its response)
SubsStart(r, q) ==
    /\ subreq[r].pc = "idle"
    /\ \A earlier \in 1..(r - 1) : subreq[earlier].pc # "idle"
    /\ LET rec == [subreq[r] EXCEPT !.query = q] IN
       subreq' = [subreq EXCEPT ![r] =
           IF ~Has(q, "ingredient") \/ q.ingredient = <<>>
           THEN RespondSubs(rec, missingIngredient)
           ELSE LET ingredient == q.ingredient
                    lower == toLowerCase(ingredient)
                    found == tierLookup(subsCache, lower)
                    at == [rec EXCEPT !.lower = lower, !.tier = found.tier,
                                      !.consulted = found.consulted]
                IN  CASE found.tier = "cache" ->
                             RespondSubs(at, jsonFrom(subsCache, lower, ingredient))
                      [] found.tier = "dictionary" ->
                             RespondSubs(at, jsonFrom(defaultSubs, lower, ingredient))
                      [] OTHER ->
                             [at EXCEPT !.pc = "awaitExternal", !.externalCalls = @ + 1,
                                        !.external = "pending"]]
    /\ UNCHANGED subsCache
    /\ UNCHANGED <<searchVars, rankVars, keyVars, normVars, shapeVars, cleanVars, cardVars>>

\* await axios.get(substitutes) resolves with response.data = data
SubsResolves(r, data) ==
    /\ subreq[r].pc = "awaitExternal"
    /\ LET rec == [subreq[r] EXCEPT !.external = "resolved", !.data = data] IN
       IF data.status = "failure" \/ ~Has(data, "substitutes")
       THEN /\ subreq' = [subreq EXCEPT ![r] = RespondSubs(rec, noKnown(rec.query.ingredient))]
            /\ UNCHANGED subsCache
       ELSE /\ subsCache' = (rec.lower :> data.substitutes) @@ subsCache
            /\ subreq' = [subreq EXCEPT ![r] = RespondSubs(rec, [status |-> 200, body |-> data])]
    /\ UNCHANGED <<searchVars, rankVars, keyVars, normVars, shapeVars, cleanVars, cardVars>>

\* the catch calling the external catalog once more before it answers
SubsThrowsRetrying(r) ==
    /\ subreq[r].pc = "awaitExternal"
    /\ subreq' = [subreq EXCEPT ![r] =
           IF subreq[r].externalCalls < 2
           THEN [subreq[r] EXCEPT !.externalCalls = @ + 1]
           ELSE RespondSubs([subreq[r] EXCEPT !.external = "threw"],
                            noKnown(subreq[r].query.ingredient))]
    /\ UNCHANGED subsCache
    /\ UNCHANGED <<searchVars, rankVars, keyVars, normVars, shapeVars, cleanVars, cardVars>>
\* await axios.get(substitutes) throws: the catch answers
SubsThrows(r) ==
    /\ subreq[r].pc = "awaitExternal"
    /\ subreq' = [subreq EXCEPT ![r] =
           RespondSubs([subreq[r] EXCEPT !.external = "threw"],
                       noKnown(subreq[r].query.ingredient))]
    /\ UNCHANGED subsCache
    /\ UNCHANGED <<searchVars, rankVars, keyVars, normVars, shapeVars, cleanVars, cardVars>>

SubsNext ==
    \E r \in Reqs :
        \/ \E q \in SubsQueries : SubsStart(r, q)
        \/ \E data \in SubsResponses : SubsResolves(r, data)
        \/ SubsThrows(r)

SubsInit == subsCache = <<>> /\ subreq = [r \in Reqs |-> IdleSubs]

(***************************************************************************)
(* The recipe card's fetchSubstitutions: what it stores in subs[ingredient] *)
(* for the answer of GET /api/substitutions                                *)
(***************************************************************************)
\* the characters matched by \w
IsWordChar(c) ==
    c \in Range(LowerLetters) \/ c \in Range(UpperLetters) \/ c \in Range(Digits) \/ c = "_"
\* the alternatives of (cup|tbsp|tsp|oz|grams?|ml|cups?|tablespoons?|teaspoons?)
Units ==
    {<<"c","u","p">>, <<"c","u","p","s">>, <<"t","b","s","p">>, <<"t","s","p">>,
     <<"o","z">>, <<"g","r","a","m">>, <<"g","r","a","m","s">>, <<"m","l">>,
     <<"t","a","b","l","e","s","p","o","o","n">>,
     <<"t","a","b","l","e","s","p","o","o","n","s">>,
     <<"t","e","a","s","p","o","o","n">>, <<"t","e","a","s","p","o","o","n","s">>}
\* the longest prefix of s whose characters all satisfy the test
RECURSIVE digitRun(_)
digitRun(s) ==
    IF s # <<>> /\ Head(s) \in Range(Digits) THEN <<Head(s)>> \o digitRun(Tail(s)) ELSE <<>>
RECURSIVE wordRun(_)
wordRun(s) ==
    IF s # <<>> /\ IsWordChar(Head(s)) THEN <<Head(s)>> \o wordRun(Tail(s)) ELSE <<>>
Drop(s, n) == SubSeq(s, n + 1, Len(s))

\* .replace(/.*=\s*/g, ""): on each line, everything up to the last "=" goes, with
\* the whitespace that follows it ("." does not match a line terminator, \s does)
RECURSIVE stripLabel(_)
stripLabel(s) ==
    IF s = <<>> THEN s
    ELSE LET eol == IF \E i \in DOMAIN s : s[i] = "\n"
                    THEN CHOOSE i \in DOMAIN s : s[i] = "\n" /\ \A j \in 1..(i-1) : s[j] # "\n"
                    ELSE Len(s) + 1
             line == SubSeq(s, 1, eol - 1)
         IN  IF \E i \in DOMAIN line : line[i] = "="
             THEN LET last == CHOOSE i \in DOMAIN line :
                                  line[i] = "=" /\ \A j \in (i+1)..Len(line) : line[j] # "="
                  IN  stripLabel(skipSpace(Drop(s, last)))
             ELSE IF eol <= Len(s)
                  THEN line \o <<"\n">> \o stripLabel(Drop(s, eol))
                  ELSE line

\* the length of the match of /\b\d+\s*(unit)\b/i at the start of s, 0 for no match;
\* afterWord says that the character before s is a word character
quantityMatch(s, afterWord) ==
    LET digits == digitRun(s)
        spaces == Len(Drop(s, Len(digits))) - Len(skipSpace(Drop(s, Len(digits))))
        word == wordRun(Drop(s, Len(digits) + spaces))
    IN  IF ~afterWord /\ digits # <<>> /\ toLowerCase(word) \in Units
        THEN Len(digits) + spaces + Len(word)
        ELSE 0
\* .replace(/\b\d+\s*(cup|tbsp|tsp|oz|grams?|ml|cups?|tablespoons?|teaspoons?)\b/gi, "")
RECURSIVE stripQuantitiesFrom(_, _)
stripQuantitiesFrom(s, afterWord) ==
    IF s = <<>> THEN s
    ELSE LET n == quantityMatch(s, afterWord) IN
         IF n > 0
         THEN stripQuantitiesFrom(Drop(s, n), TRUE)
         ELSE <<Head(s)>> \o stripQuantitiesFrom(Tail(s), IsWordChar(Head(s)))
stripQuantities(s) == stripQuantitiesFrom(s, FALSE)

\* (s) => s.replace(...).replace(...).trim()
cleanSubstitute(s) == trim(stripQuantities(stripLabel(s)))
NonEmpty(s) == Len(s) > 0
\* substitutes.map(clean).filter((s) => s.length > 0)
cleanSubs(substitutes) ==
    SelectSeq([i \in DOMAIN substitutes |-> cleanSubstitute(substitutes[i])], NonEmpty)
\* [...new Set(cleanSubs.map((s) => s.trim()))]
uniqueSubs(cleaned) == uniq([i \in DOMAIN cleaned |-> trim(cleaned[i])])
\* the cleaned list stored as it is
subsAsCleaned(unique, ingredient) == unique
\* uniqueSubs.length > 0 ? uniqueSubs : [`No known substitutes for ${ingredient}`]
subsOrSentinel(unique, ingredient) ==
    IF Len(unique) > 0 THEN unique ELSE <<noKnownSubstitutes(ingredient)>>
\* "Could not fetch substitutes."
couldNotFetch == <<"C","o","u","l","d"," ","n","o","t"," ","f","e","t","c","h"," ","s","u","b","s","t","i","t","u","t","e","s",".">>
\* axios rejects a response whose status is not 2xx
AxiosThrows(status) == status < 200 \/ status >= 300
\* what fetchSubstitutions stores in subs[ingredient] for a response
subsForResponse(ingredient, status, data) ==
    IF AxiosThrows(status) THEN <<couldNotFetch>>
    ELSE IF status = 200 /\ Has(data, "substitutes")
         THEN subsOrSentinel(uniqueSubs(cleanSubs(data.substitutes)), ingredient)
         ELSE <<noKnownSubstitutes(ingredient)>>

\* the card receives the answer of request r and stores the list for display
ClientReceives(r) ==
    /\ subreq[r].pc = "done"
    /\ Has(subreq[r].query, "ingredient")
    /\ subreq' = [subreq EXCEPT ![r] =
           [subreq[r] EXCEPT
               !.pc = "shown",
               !.shown = subsForResponse(subreq[r].query.ingredient, subreq[r].status,
                                         subreq[r].body)]]
    /\ UNCHANGED subsCache
    /\ UNCHANGED <<searchVars, rankVars, keyVars, normVars, shapeVars, cleanVars, cardVars>>
\* the card's request r does not reach the server: axios.get throws
ClientFetchFails(r, q) ==
    /\ subreq[r].pc = "idle"
    /\ \A earlier \in 1..(r - 1) : subreq[earlier].pc # "idle"
    /\ Has(q, "ingredient")
    /\ subreq' = [subreq EXCEPT ![r] =
           [subreq[r] EXCEPT !.pc = "shown", !.query = q, !.shown = <<couldNotFetch>>]]
    /\ UNCHANGED subsCache
    /\ UNCHANGED <<searchVars, rankVars, keyVars, normVars, shapeVars, cleanVars, cardVars>>

DisplayNext ==
    \/ SubsNext
    \/ \E r \in Reqs : ClientReceives(r)
    \/ \E r \in Reqs : \E q \in SubsQueries : ClientFetchFails(r, q)

(***************************************************************************)
(* Ranking alone: recipes.sort applied to any short list of shaped recipes *)
(***************************************************************************)
\* longest list of recipes ranked
MaxRankLen == 3
UsedChoices == {<<>>, <<"salt">>, <<"salt", "oil">>}
MissedChoices == {<<>>, <<"egg">>}
RankProfiles == UsedChoices \X MissedChoices \X BOOLEAN
\* the recipes of a list get the ids 1, 2, ... in the order of the list
RankInputs ==
    {[i \in DOMAIN f |->
         [id |-> i, cuisines |-> <<>>, usedIngredients |-> f[i][1],
          missedIngredients |-> f[i][2], matchesCuisine |-> f[i][3], sourceUrl |-> "#"]] :
     f \in UNION {[1..n -> RankProfiles] : n \in 0..MaxRankLen}}

RankInit == rankPc = "input" /\ rankIn \in RankInputs /\ rankOut = <<>>
RankOff == rankPc = "off" /\ rankIn = <<>> /\ rankOut = <<>>
Rank ==
    /\ rankPc = "input"
    /\ rankOut' = sortRecipes(rankIn)
    /\ rankPc' = "ranked"
    /\ UNCHANGED rankIn
    /\ UNCHANGED <<searchVars, subsVars, keyVars, normVars, shapeVars, cleanVars, cardVars>>

(***************************************************************************)
(* Key derivation alone: finalIngredients and cacheKey of two requests     *)
(* that carry the same number and cuisine parameters                       *)
(***************************************************************************)
\* most comma-separated parts in an ingredients text
MaxParts == 2
\* the parts: "b", "B", " b!", "salt", "Oil", ""
IngredientParts == {<<"b">>, <<"B">>, <<" ", "b", "!">>, <<"s","a","l","t">>,
                    <<"O","i","l">>, <<>>}
IngredientTexts ==
    {join(parts, ",") : parts \in UNION {[1..n -> IngredientParts] : n \in 1..MaxParts}}
OtherParams == {NoProps, Prop("number", <<"1">>) @@ Prop("cuisine", <<"I", "t">>)}

KeyInit ==
    /\ keyPc = "input"
    /\ keyIn \in [a : IngredientTexts, b : IngredientTexts, other : OtherParams]
    /\ keyOut = <<>>
KeyOff == keyPc = "off" /\ keyIn = <<>> /\ keyOut = <<>>
keysOf(ingredients, query) ==
    LET finalIngredients == finalIngredientsOf(ingredients) IN
    [finalIngredients |-> finalIngredients,
     cacheKey |-> cacheKeyOf(finalIngredients, numberOf(query), cuisineOf(query))]
DeriveKeys ==
    /\ keyPc = "input"
    /\ keyOut' = <<keysOf(keyIn.a, keyIn.other), keysOf(keyIn.b, keyIn.other)>>
    /\ keyPc' = "derived"
    /\ UNCHANGED keyIn
    /\ UNCHANGED <<searchVars, subsVars, rankVars, normVars, shapeVars, cleanVars, cardVars>>

(***************************************************************************)
(* Normalization alone: normalizeIngredient applied to any two short texts *)
(***************************************************************************)
\* longest ingredient text normalized
MaxNormLen == 3
\* the characters of the texts: a letter in both cases, a space, a tab, a symbol
NormChars == {"b", "B", " ", "\t", "!"}
NormTexts == UNION {[1..n -> NormChars] : n \in 0..MaxNormLen}

NormInit ==
    /\ normPc = "input"
    /\ normIn \in [a : NormTexts, b : NormTexts]
    /\ normOut = <<>>
NormOff == normPc = "off" /\ normIn = <<>> /\ normOut = <<>>
Normalize ==
    /\ normPc = "input"
    /\ normOut' = [a |-> normalizeIngredient(normIn.a),
                   b |-> normalizeIngredient(normIn.b),
                   again |-> normalizeIngredient(normalizeIngredient(normIn.a))]
    /\ normPc' = "normalized"
    /\ UNCHANGED normIn
    /\ UNCHANGED <<searchVars, subsVars, rankVars, keyVars, shapeVars, cleanVars, cardVars>>

(***************************************************************************)
(* Shaping alone: one record of the catalog's response mapped under any    *)
(* cuisine parameter                                                       *)
(***************************************************************************)
\* most cuisines on a record of the catalog
MaxCuisines == 2
\* req.query.cuisine: absent, "", "It", "it,Fr", "fr, it", ","
CuisineQueries ==
    {NoProps, Prop("cuisine", <<>>), Prop("cuisine", <<"I","t">>),
     Prop("cuisine", <<"i","t",",","F","r">>),
     Prop("cuisine", <<"f","r",","," ","i","t">>), Prop("cuisine", <<",">>)}
\* the cuisines of a record: "IT", "Fr", " it", ""
CuisineNames == {<<"I","T">>, <<"F","r">>, <<" ","i","t">>, <<>>}
RawCandidates ==
    {[id |-> 1]}
        \cup {[id |-> 1, cuisines |-> c] :
                  c \in UNION {[1..n -> CuisineNames] : n \in 0..MaxCuisines}}

ShapeInit ==
    /\ shapePc = "input"
    /\ shapeIn \in [query : CuisineQueries, raw : RawCandidates]
    /\ shapeOut = <<>>
ShapeOff == shapePc = "off" /\ shapeIn = <<>> /\ shapeOut = <<>>
Shape ==
    /\ shapePc = "input"
    /\ shapeOut' = shapeRecipe(shapeIn.raw, cuisineOf(shapeIn.query))
    /\ shapePc' = "shaped"
    /\ UNCHANGED shapeIn
    /\ UNCHANGED <<searchVars, subsVars, rankVars, keyVars, normVars, cleanVars, cardVars>>

(***************************************************************************)
(* Cleaning alone: cleanSubs and uniqueSubs applied to any short list of   *)
(* raw substitute strings                                                  *)
(***************************************************************************)
\* longest list of raw substitute strings cleaned
MaxRawSubs == 2
\* the raw strings: "2 cups = oat milk", "oat milk", "1 cup = 1 cup chard", "chard", "2 cups", " = x2 cups", "12CUPS milk ", "1 tbsp oil + 2 tsp salt", "milk = 3 Grams", "a = b = 5 mls",
\* "1/2 cup water", "1 cup = 7/8 cup lard and 1.5 tsp salt"
RawSubstitutes ==
    {<<"2"," ","c","u","p","s"," ","="," ","o","a","t"," ","m","i","l","k">>,
     <<"o","a","t"," ","m","i","l","k">>,
     <<"1"," ","c","u","p"," ","="," ","1"," ","c","u","p"," ","c","h","a","r","d">>,
     <<"c","h","a","r","d">>,
     <<"2"," ","c","u","p","s">>,
     <<" ","="," ","x","2"," ","c","u","p","s">>,
     <<"1","2","C","U","P","S"," ","m","i","l","k"," ">>,
     <<"1"," ","t","b","s","p"," ","o","i","l"," ","+"," ","2"," ","t","s","p"," ","s","a","l","t">>,
     <<"m","i","l","k"," ","="," ","3"," ","G","r","a","m","s">>,
     <<"a"," ","="," ","b"," ","="," ","5"," ","m","l","s">>,
     <<"1","/","2"," ","c","u","p"," ","w","a","t","e","r">>,
     <<"1"," ","c","u","p"," ","="," ","7","/","8"," ","c","u","p"," ","l","a","r","d"," ","a","n","d"," ","1",".","5"," ","t","s","p"," ","s","a","l","t">>}
RawSubstituteLists == UNION {[1..n -> RawSubstitutes] : n \in 0..MaxRawSubs}

CleanInit == cleanPc = "input" /\ cleanIn \in RawSubstituteLists /\ cleanOut = <<>>
CleanOff == cleanPc = "off" /\ cleanIn = <<>> /\ cleanOut = <<>>
Clean ==
    /\ cleanPc = "input"
    /\ cleanOut' = uniqueSubs(cleanSubs(cleanIn))
    /\ cleanPc' = "cleaned"
    /\ UNCHANGED cleanIn
    /\ UNCHANGED <<searchVars, subsVars, rankVars, keyVars, normVars, shapeVars, cardVars>>

(***************************************************************************)
(* The recipe card: the "Find Substitute" button of each missing           *)
(* ingredient and the fetches it starts                                    *)
(***************************************************************************)
\* the names of the missing ingredients on the card: "kale", "egg"
CardIngredients == {<<"k","a","l","e">>, <<"e","g","g">>}
\* most fetches of one ingredient followed at once
MaxInFlight == 2
\* the answers of GET /api/substitutions that axios.get can deliver to the card
CardStatuses == {200, 400, 500}
CardBodies ==
    {NoProps} \cup {Prop("substitutes", l) : l \in SubstituteLists}
        \cup {Prop("substitutes", <<noKnownSubstitutes(i)>>) : i \in CardIngredients}
\* obj[key] read as a condition, for an object of flags
Flag(obj, key) == IF key \in DOMAIN obj THEN obj[key] ELSE key \in InheritedNames
\* setX((prev) => ({ ...prev, [key]: value }))
SetKey(prev, key, value) == (key :> value) @@ prev

CardInit ==
    /\ subs = NoProps
    /\ loadingSubs = NoProps
    /\ openSubs = NoProps
    /\ inFlight = [i \in CardIngredients |-> 0]

\* the button's onClick without the disabled attribute
ClickWhileLoading(ing) ==
    /\ IF Flag(openSubs, ing)
       THEN /\ openSubs' = SetKey(openSubs, ing, FALSE)
            /\ UNCHANGED <<subs, loadingSubs, inFlight>>
       ELSE /\ inFlight[ing] < MaxInFlight
            /\ loadingSubs' = SetKey(loadingSubs, ing, TRUE)
            /\ inFlight' = [inFlight EXCEPT ![ing] = @ + 1]
            /\ openSubs' = SetKey(openSubs, ing, TRUE)
            /\ UNCHANGED subs
    /\ UNCHANGED <<searchVars, subsVars, rankVars, keyVars, normVars, shapeVars, cleanVars>>
\* a click on the button of ing, which is disabled while loadingSubs[ing]: an open
\* list is closed; a closed one is opened and fetchSubstitutions runs to its await
Click(ing) ==
    /\ ~Flag(loadingSubs, ing)
    /\ IF Flag(openSubs, ing)
       THEN /\ openSubs' = SetKey(openSubs, ing, FALSE)
            /\ UNCHANGED <<subs, loadingSubs, inFlight>>
       ELSE /\ inFlight[ing] < MaxInFlight
            /\ loadingSubs' = SetKey(loadingSubs, ing, TRUE)
            /\ inFlight' = [inFlight EXCEPT ![ing] = @ + 1]
            /\ openSubs' = SetKey(openSubs, ing, TRUE)
            /\ UNCHANGED subs
    /\ UNCHANGED <<searchVars, subsVars, rankVars, keyVars, normVars, shapeVars, cleanVars>>
\* fetchSubstitutions from its await to its end: list is stored, finally clears the flag
FetchEnds(ing, list) ==
    /\ inFlight[ing] > 0
    /\ subs' = SetKey(subs, ing, list)
    /\ loadingSubs' = SetKey(loadingSubs, ing, FALSE)
    /\ inFlight' = [inFlight EXCEPT ![ing] = @ - 1]
    /\ UNCHANGED openSubs
\* the server answers with a status and a body
FetchAnswered(ing, status, data) ==
    /\ FetchEnds(ing, subsForResponse(ing, status, data))
    /\ UNCHANGED <<searchVars, subsVars, rankVars, keyVars, normVars, shapeVars, cleanVars>>
\* the request does not reach the server, or no answer comes back: axios.get throws
FetchThrows(ing) ==
    /\ FetchEnds(ing, <<couldNotFetch>>)
    /\ UNCHANGED <<searchVars, subsVars, rankVars, keyVars, normVars, shapeVars, cleanVars>>
\* the pending axios.get of ing settles, one way or the other
FetchSettles(ing) ==
    \/ \E status \in CardStatuses : \E data \in CardBodies : FetchAnswered(ing, status, data)
    \/ FetchThrows(ing)

CardNext ==
    \E ing \in CardIngredients :
        \/ Click(ing)
        \/ \E status \in CardStatuses : \E data \in CardBodies :
               FetchAnswered(ing, status, data)
        \/ FetchThrows(ing)

(***************************************************************************)
(* Specifications                                                          *)
(***************************************************************************)
Init == SearchInit /\ SubsInit /\ RankOff /\ KeyOff
    /\ NormOff /\ ShapeOff /\ CleanOff /\ CardInit
Next == SearchNext
Spec == Init /\ [][Next]_vars

SubsSpec == Init /\ [][SubsNext]_vars

\* one search request and one substitution request side by side, with all their
\* external calls
MaxCallReqs == 1
CallReqs == 1..MaxCallReqs
CallsNext ==
    \E r \in CallReqs :
        \/ \E q \in SearchQueries : SearchStart(r, q)
        \/ PrimaryThrows(r)
        \/ \E data \in CatalogResponses : PrimaryResolves(r, data)
        \/ DetailResolves(r)
        \/ DetailThrows(r)
        \/ \E q \in SubsQueries : SubsStart(r, q)
        \/ \E data \in SubsResponses : SubsResolves(r, data)
        \/ SubsThrows(r)
CallsSpec == Init /\ [][CallsNext]_vars

NormSpecInit == SearchInit /\ SubsInit /\ RankOff /\ KeyOff
    /\ NormInit /\ ShapeOff /\ CleanOff /\ CardInit
NormSpec == NormSpecInit /\ [][Normalize]_vars

ShapeSpecInit == SearchInit /\ SubsInit /\ RankOff /\ KeyOff
    /\ NormOff /\ ShapeInit /\ CleanOff /\ CardInit
ShapeSpec == ShapeSpecInit /\ [][Shape]_vars

\* the substitution requests together with the recipe card that displays the answers
DisplaySpec == Init /\ [][DisplayNext]_vars

RankSpecInit == SearchInit /\ SubsInit /\ RankInit /\ KeyOff
    /\ NormOff /\ ShapeOff /\ CleanOff /\ CardInit
RankSpec == RankSpecInit /\ [][Rank]_vars

KeySpecInit == SearchInit /\ SubsInit /\ RankOff /\ KeyInit
    /\ NormOff /\ ShapeOff /\ CleanOff /\ CardInit
KeySpec == KeySpecInit /\ [][DeriveKeys]_vars

CleanSpecInit ==
    SearchInit /\ SubsInit /\ RankOff /\ KeyOff /\ NormOff /\ ShapeOff /\ CleanInit
    /\ CardInit
CleanSpec == CleanSpecInit /\ [][Clean]_vars

\* the recipe card alone
CardSpec == Init /\ [][CardNext]_vars
\* the same where every request the card sent settles: the browser ends a request with
\* an answer or with an error
CardFairSpec == CardSpec /\ \A ing \in CardIngredients : WF_vars(FetchSettles(ing))

(***************************************************************************)
(* Properties of GET /api/recipes                                          *)
(***************************************************************************)
Started(r) == sreq[r].pc # "idle"
\* request r arrives in this step
Arrives(r) == sreq[r].pc = "idle" /\ sreq'[r].pc # "idle"
\* the request made no call to the external catalog
NoExternalCall(rec) == rec.primaryCalls = 0 /\ rec.detailCalls = <<>>
\* the ingredients text is present and every comma-separated part normalizes to ""
NormalizesToNothing(q) ==
    /\ Has(q, "ingredients")
    /\ \A t \in Range(split(q.ingredients, ",")) : normalizeIngredient(t) = <<>>
\* the request missed the cache and its primary call succeeded
MissedAndSucceeded(rec) == rec.pc = "done" /\ rec.primary = "resolved"

\* C1: a search whose ingredients text is empty or normalizes to nothing ends at once
\* with the 400 input error, calls neither the primary search nor a detail lookup,
\* and leaves the recipe cache unchanged.
C1_EmptyIngredientsFailFast ==
    [][\A r \in Reqs :
          (Arrives(r) /\ NormalizesToNothing(sreq'[r].query)) =>
              /\ sreq'[r].pc = "done"
              /\ sreq'[r].status = 400
              /\ NoExternalCall(sreq'[r])
              /\ recipeCache' = recipeCache]_vars

\* C2: a search without any ingredients parameter is answered, once, with the 400
\* input error, and makes no external call.
C2_MissingIngredientsIs400 ==
    \A r \in Reqs :
        (Started(r) /\ ~Has(sreq[r].query, "ingredients")) =>
            /\ sreq[r].pc = "done"
            /\ sreq[r].status = 400
            /\ NoExternalCall(sreq[r])

\* C4: once a search for key K has missed the cache, succeeded and returned S, every
\* search that arrives later and derives K returns exactly S and makes no external call.
C4_LaterSearchReturnsFirstResult ==
    [][\A r, first \in Reqs :
          (/\ Arrives(r)
           /\ MissedAndSucceeded(sreq[first])
           /\ Has(sreq'[r].query, "ingredients")
           /\ sreq'[r].cacheKey = sreq[first].cacheKey) =>
              /\ sreq'[r].pc = "done"
              /\ sreq'[r].status = 200
              /\ sreq'[r].body = sreq[first].body
              /\ NoExternalCall(sreq'[r])]_vars

\* C5: when the primary find-by-ingredients call fails, the search answers with the
\* generic fetch failure, returns no candidate, issues no detail lookup and leaves the
\* recipe cache as it was.
C5_PrimaryFailureFailsSearch ==
    [][\A r \in Reqs :
          (sreq[r].primary = "pending" /\ sreq'[r].primary = "threw") =>
              /\ sreq'[r].pc = "done"
              /\ sreq'[r].status = 500
              /\ sreq'[r].error = "Failed to fetch recipes"
              /\ sreq'[r].body = <<>>
              /\ sreq'[r].detailCalls = <<>>
              /\ recipeCache' = recipeCache]_vars
\* a primary call failed while the cache held an entry
C5_Witness ==
    \E r \in Reqs :
        /\ sreq[r].primary = "threw" /\ sreq[r].pc = "done"
        /\ DOMAIN recipeCache # {}

\* C6: when the primary call succeeded, detail lookups that fail do not fail the
\* request: the result holds the candidates that ranking and truncation keep, a
\* candidate whose lookup failed carries "#", and a candidate whose lookup supplied a
\* sourceUrl carries that sourceUrl.
C6_DetailFailureIsolated ==
    \A r \in Reqs :
        MissedAndSucceeded(sreq[r]) =>
            LET rec == sreq[r]
                kept == rankAndTruncate(shapeRecipes(rec.data, cuisineOf(rec.query)),
                                        numberOf(rec.query))
                At(id) == CHOOSE j \in DOMAIN rec.data : rec.data[j].id = id
            IN  /\ rec.status = 200
                /\ Len(rec.detailLog) = Len(rec.data)
                /\ Len(rec.body) = Len(kept)
                /\ \A i \in DOMAIN rec.body :
                       LET lookup == rec.detailLog[At(rec.body[i].id)] IN
                       /\ rec.body[i].id = kept[i].id
                       /\ lookup.threw => rec.body[i].sourceUrl = "#"
                       /\ (~lookup.threw /\ lookup.sourceUrl # "") =>
                              rec.body[i].sourceUrl = lookup.sourceUrl
\* a result with two candidates, one whose lookup failed and one whose lookup supplied a URL
C6_Witness ==
    \E r \in Reqs :
        /\ MissedAndSucceeded(sreq[r])
        /\ Len(sreq[r].body) = 2
        /\ \E i, j \in DOMAIN sreq[r].detailLog :
               /\ sreq[r].detailLog[i].threw
               /\ ~sreq[r].detailLog[j].threw /\ sreq[r].detailLog[j].sourceUrl # ""

\* C8: a search that missed the cache and whose primary call succeeded with
\* n candidates returns the first min(count, n) elements of the ranked sequence, for
\* whatever integer count the request carries (3 when number is absent), and never
\* more than count elements.
CarriedCount(q) ==
    IF Has(q, "number") /\ ~IsNaNParse(q.number) THEN parseInt(q.number) ELSE 3
C8_TruncatesToCarriedCount ==
    \A r \in Reqs :
        MissedAndSucceeded(sreq[r]) =>
            LET ranked == sortRecipes(sreq[r].recipes)
                count == CarriedCount(sreq[r].query)
            IN  /\ sreq[r].body = SubSeq(ranked, 1, Min(count, Len(ranked)))
                /\ Len(sreq[r].body) <= count

(***************************************************************************)
(* Properties of the ranking and of the cache key                          *)
(***************************************************************************)
\* primary score = count(usedIngredients) - count(missedIngredients)
PrimaryScore(c) == Len(c.usedIngredients) - Len(c.missedIngredients)
\* the comparator ranks a strictly higher than b
RanksHigher(a, b) ==
    \/ PrimaryScore(a) > PrimaryScore(b)
    \/ PrimaryScore(a) = PrimaryScore(b) /\ a.matchesCuisine /\ ~b.matchesCuisine
PositionOf(id, recipes) == CHOOSE i \in DOMAIN recipes : recipes[i].id = id

\* C7: ranking returns the stable sort of its input under the comparator: a permutation
\* of the input in which no candidate precedes one the comparator ranks strictly
\* higher, and candidates of equal (score, matchesCuisine) keep their input order.
C7_RankIsStableSort ==
    rankPc = "ranked" =>
        /\ Len(rankOut) = Len(rankIn)
        /\ \A i \in DOMAIN rankIn : \E j \in DOMAIN rankOut : rankOut[j] = rankIn[i]
        /\ \A i, j \in DOMAIN rankOut : i < j => ~RanksHigher(rankOut[j], rankOut[i])
        /\ \A i, j \in DOMAIN rankIn :
               (/\ i < j
                /\ ~RanksHigher(rankIn[i], rankIn[j])
                /\ ~RanksHigher(rankIn[j], rankIn[i])) =>
                   PositionOf(rankIn[i].id, rankOut) < PositionOf(rankIn[j].id, rankOut)
\* a ranked list of three in which the sort moved a candidate forward on the cuisine
\* tie-break and kept two equal candidates in their input order
C7_Witness ==
    /\ rankPc = "ranked" /\ Len(rankIn) = 3
    /\ rankOut # rankIn
    /\ \E i, j \in DOMAIN rankIn :
           /\ i < j
           /\ PrimaryScore(rankIn[i]) = PrimaryScore(rankIn[j])
           /\ ~rankIn[i].matchesCuisine /\ rankIn[j].matchesCuisine
    /\ \E i, j \in DOMAIN rankIn :
           /\ i < j
           /\ ~RanksHigher(rankIn[i], rankIn[j]) /\ ~RanksHigher(rankIn[j], rankIn[i])

\* the comma-separated parts of a and b are the same up to order and letter case
SameUpToOrderAndCase(a, b) ==
    LET pa == split(a, ",")
        pb == split(b, ",")
    IN  /\ Len(pa) = Len(pb)
        /\ \E p \in [DOMAIN pa -> DOMAIN pb] :
               /\ \A i, j \in DOMAIN pa : i # j => p[i] # p[j]
               /\ \A i \in DOMAIN pa : toLowerCase(pa[i]) = toLowerCase(pb[p[i]])

\* C3: two searches with the same count and cuisine list whose ingredients differ only
\* in the order of the comma-separated ingredients or in letter case derive the same
\* cache key (so that the second is served the first one's cached result).
C3_KeyIgnoresOrderAndCase ==
    (keyPc = "derived" /\ SameUpToOrderAndCase(keyIn.a, keyIn.b)) =>
        keyOut[1].cacheKey = keyOut[2].cacheKey

(***************************************************************************)
(* Properties of GET /api/substitutions                                    *)
(***************************************************************************)
\* substitution request r arrives in this step, with an ingredient
ArrivesWithIngredient(r) ==
    /\ subreq[r].pc = "idle" /\ subreq'[r].pc # "idle"
    /\ Has(subreq'[r].query, "ingredient") /\ subreq'[r].query.ingredient # <<>>
TierOrder == <<"cache", "dictionary", "external">>
IsPrefix(s, t) == Len(s) <= Len(t) /\ s = SubSeq(t, 1, Len(s))
Cached(lower) == lower \in DOMAIN subsCache
InDictionary(lower) == lower \in DOMAIN defaultSubs

\* C9: the tiers are consulted in the order cache, dictionary, external catalog and
\* the first that hits answers: a cached key is answered with the cached list without
\* consulting the dictionary (also when the key is in the dictionary), an uncached
\* dictionary key with the dictionary's list, and the external catalog is called only
\* when cache and dictionary both miss.
C9_TiersInOrder ==
    [][\A r \in Reqs :
          ArrivesWithIngredient(r) =>
              LET lower == toLowerCase(subreq'[r].query.ingredient)
                  after == subreq'[r]
              IN  /\ after.consulted # <<>> /\ IsPrefix(after.consulted, TierOrder)
                  /\ after.tier = after.consulted[Len(after.consulted)]
                  /\ Cached(lower) =>
                         /\ after.consulted = <<"cache">>
                         /\ after.pc = "done"
                         /\ after.body.substitutes = subsCache[lower]
                  /\ (~Cached(lower) /\ InDictionary(lower)) =>
                         /\ after.consulted = <<"cache", "dictionary">>
                         /\ after.pc = "done"
                         /\ after.body.substitutes = defaultSubs[lower]
                  /\ after.externalCalls > 0 => ~Cached(lower) /\ ~InDictionary(lower)]_vars
\* one request was answered by each tier
C9_Witness ==
    \E a, b, c \in Reqs :
        /\ subreq[a].tier = "external" /\ subreq[a].pc = "done"
        /\ subreq[b].tier = "cache" /\ Cached(subreq[b].lower)
        /\ subreq[c].tier = "dictionary"

\* C10: a request whose lowercase ingredient is a dictionary key and is not cached
\* returns the dictionary's list, makes no external call and leaves the substitution
\* cache unchanged.
C10_DictionaryHitNotCached ==
    [][\A r \in Reqs :
          LET lower == toLowerCase(subreq'[r].query.ingredient) IN
          (ArrivesWithIngredient(r) /\ InDictionary(lower) /\ ~Cached(lower)) =>
              /\ subreq'[r].pc = "done"
              /\ subreq'[r].status = 200
              /\ subreq'[r].body.substitutes = defaultSubs[lower]
              /\ subreq'[r].externalCalls = 0
              /\ subsCache' = subsCache]_vars
\* a dictionary key was answered while the cache held an entry
C10_Witness ==
    \E r \in Reqs :
        /\ subreq[r].pc = "done" /\ subreq[r].tier = "dictionary"
        /\ InDictionary(subreq[r].lower)
        /\ subreq[r].externalCalls = 0
        /\ DOMAIN subsCache # {}

\* the request has been answered
Answered(rec) == rec.pc \in {"done", "shown"}
\* the request's external call succeeded with a substitute list, which it stored
StoredFromExternal(rec) ==
    /\ Answered(rec) /\ rec.external = "resolved"
    /\ rec.status = 200 /\ Has(rec.body, "status") /\ Has(rec.body, "substitutes")

\* C11: when the external call of a request succeeds with list L, the step stores L
\* unmodified under the lowercase ingredient and returns it, and every request for the
\* same ingredient (in any letter case) that arrives later is answered with L from the
\* cache and makes no external call.
C11_StoredListServesLaterRequests ==
    [][/\ \A r \in Reqs :
              (/\ subreq[r].pc = "awaitExternal"
               /\ StoredFromExternal(subreq'[r])) =>
                  /\ subsCache'[subreq[r].lower] = subreq'[r].body.substitutes
                  /\ subreq[r].lower = toLowerCase(subreq[r].query.ingredient)
       /\ \A r, first \in Reqs :
              (/\ ArrivesWithIngredient(r)
               /\ StoredFromExternal(subreq[first])
               /\ toLowerCase(subreq'[r].query.ingredient) = subreq[first].lower) =>
                  /\ subreq'[r].pc = "done"
                  /\ subreq'[r].tier = "cache"
                  /\ subreq'[r].externalCalls = 0
                  /\ subreq'[r].body.substitutes = subreq[first].body.substitutes]_vars

\* the external call of request r fails in this step
ExternalThrows(r) == subreq[r].external = "pending" /\ subreq'[r].external = "threw"
\* the recipe card stores the list for request r in this step
Displays(r) == subreq[r].pc = "done" /\ subreq'[r].pc = "shown"

\* C12: when the external substitution call fails at the transport level, the result
\* for the ingredient is ["Could not fetch substitutes."] and the substitution cache is
\* left unchanged.
C12_TransportFailureCouldNotFetch ==
    [][\A r \in Reqs :
          /\ ExternalThrows(r) => subsCache' = subsCache
          /\ (Displays(r) /\ subreq[r].external = "threw") =>
                 subreq'[r].shown = <<couldNotFetch>>]_vars

\* the response of the external call reports failure or carries no substitute data
FailureOrNoData(data) ==
    (Has(data, "status") /\ data.status = "failure") \/ ~Has(data, "substitutes")

\* C13: when the external response has a failure status or carries no substitutes, the
\* request is answered 200 with ["No known substitutes for <ingredient>"] and nothing
\* is written to the substitution cache.
C13_FailureResponseGivesSentinel ==
    [][\A r \in Reqs :
          (/\ subreq[r].external = "pending" /\ subreq'[r].external = "resolved"
           /\ FailureOrNoData(subreq'[r].data)) =>
              /\ subreq'[r].pc = "done"
              /\ subreq'[r].status = 200
              /\ subreq'[r].body.substitutes =
                     <<noKnownSubstitutes(subreq[r].query.ingredient)>>
              /\ subsCache' = subsCache]_vars
\* a failure response and a response without substitutes were answered while the
\* cache held an entry
C13_Witness ==
    \E a, b \in Reqs :
        /\ subreq[a].pc = "done" /\ subreq[a].external = "resolved"
        /\ Has(subreq[a].data, "status") /\ subreq[a].data.status = "failure"
        /\ subreq[b].pc = "done" /\ subreq[b].external = "resolved"
        /\ Has(subreq[b].data, "status") /\ subreq[b].data.status = "success"
        /\ ~Has(subreq[b].data, "substitutes")
        /\ DOMAIN subsCache # {}

\* substitution request r arrives in this step without an ingredient
ArrivesWithoutIngredient(r) ==
    /\ subreq[r].pc = "idle" /\ subreq'[r].pc \notin {"idle", "shown"}
    /\ ~Has(subreq'[r].query, "ingredient") \/ subreq'[r].query.ingredient = <<>>

\* C14: a substitution request whose ingredient is missing or empty is answered 400
\* with a non-empty sentinel list, consults no tier, makes no external call and leaves
\* the substitution cache unchanged.
C14_MissingIngredientIs400 ==
    [][\A r \in Reqs :
          ArrivesWithoutIngredient(r) =>
              /\ subreq'[r].pc = "done"
              /\ subreq'[r].status = 400
              /\ Has(subreq'[r].body, "substitutes")
              /\ subreq'[r].body.substitutes # <<>>
              /\ subreq'[r].consulted = <<>>
              /\ subreq'[r].externalCalls = 0
              /\ subsCache' = subsCache]_vars
\* a request without the parameter and one with an empty ingredient were answered 400
\* while the cache held an entry
C14_Witness ==
    \E a, b \in Reqs :
        /\ subreq[a].pc = "done" /\ ~Has(subreq[a].query, "ingredient")
        /\ subreq[a].status = 400
        /\ subreq[b].pc = "done" /\ Has(subreq[b].query, "ingredient")
        /\ subreq[b].query.ingredient = <<>> /\ subreq[b].status = 400
        /\ DOMAIN subsCache # {}

NoDuplicates(list) == \A i, j \in DOMAIN list : list[i] = list[j] => i = j
\* the answer carries a substitute list and every item of it cleans to nothing
CleansToNothing(rec) ==
    /\ rec.status = 200 /\ Has(rec.body, "substitutes")
    /\ \A i \in DOMAIN rec.body.substitutes : cleanSubstitute(rec.body.substitutes[i]) = <<>>

\* C15: whatever tier answered and whatever the outcome of the external call, the list
\* held for display is non-empty and without duplicates, and it is the one-element
\* sentinel ["No known substitutes for <ingredient>"] when cleaning leaves no item.
C15_DisplayedListNonEmptyUnique ==
    \A r \in Reqs :
        subreq[r].pc = "shown" =>
            /\ subreq[r].shown # <<>>
            /\ NoDuplicates(subreq[r].shown)
            /\ \A i \in DOMAIN subreq[r].shown : subreq[r].shown[i] # <<>>
            /\ CleansToNothing(subreq[r]) =>
                   subreq[r].shown = <<noKnownSubstitutes(subreq[r].query.ingredient)>>
\* displayed: an external success whose only item cleans to nothing, the same list
\* from the cache, and an external success with an empty list
C15_Witness ==
    \E a, b \in Reqs :
        /\ subreq[a].pc = "shown" /\ subreq[a].tier = "external"
        /\ subreq[a].external = "resolved"
        /\ CleansToNothing(subreq[a]) /\ subreq[a].body.substitutes # <<>>
        /\ subreq[b].pc = "shown" /\ subreq[b].tier = "cache"
        /\ CleansToNothing(subreq[b])

\* C16: no external call is retried: a search request makes at most one primary call
\* and at most one detail lookup per candidate, and a substitution request at most one
\* external call, whatever the outcomes of the calls.
C16_NoRetry ==
    \A r \in Reqs :
        /\ sreq[r].primaryCalls <= 1
        /\ Len(sreq[r].detailCalls) <= Len(sreq[r].data)
        /\ \A i \in DOMAIN sreq[r].detailCalls :
               sreq[r].detailCalls[i] = sreq[r].data[i].id
        /\ subreq[r].externalCalls <= 1
\* a search finished after a failed detail lookup and a substitution request was
\* answered after its external call failed
C16_Witness ==
    \E r \in Reqs :
        /\ sreq[r].pc = "done" /\ sreq[r].primaryCalls = 1
        /\ Len(sreq[r].detailCalls) = 2
        /\ \E i \in DOMAIN sreq[r].detailLog : sreq[r].detailLog[i].threw
        /\ subreq[r].pc = "done" /\ subreq[r].external = "threw"
        /\ subreq[r].externalCalls = 1

(***************************************************************************)
(* Properties of normalization, of the ingredient list and of shaping      *)
(***************************************************************************)
\* C17: normalization is idempotent: normalize(normalize(x)) = normalize(x).
C17_NormalizeIdempotent ==
    normPc = "normalized" => normOut.again = normOut.a
\* a text that normalization changed (case, symbol and whitespace) was normalized twice
C17_Witness ==
    /\ normPc = "normalized"
    /\ normOut.a # normIn.a /\ normOut.a # <<>>
    /\ \E i \in DOMAIN normIn.a : normIn.a[i] = "!"
    /\ \E i \in DOMAIN normIn.a : normIn.a[i] \in Whitespace

\* a letter is the same letter in either case
IsLetter(c) == c \in Range(LowerLetters) \/ c \in Range(UpperLetters)
FoldCase(c) ==
    IF \E i \in DOMAIN UpperLetters : UpperLetters[i] = c
    THEN LowerLetters[CHOOSE i \in DOMAIN UpperLetters : UpperLetters[i] = c]
    ELSE c
\* the words of a text: its maximal runs of letters in lower case, a run ending at
\* whitespace only (every other character is passed over)
RECURSIVE WordsFrom(_, _)
WordsFrom(s, word) ==
    IF s = <<>> THEN (IF word = <<>> THEN <<>> ELSE <<word>>)
    ELSE IF IsLetter(Head(s)) THEN WordsFrom(Tail(s), Append(word, FoldCase(Head(s))))
    ELSE IF Head(s) \in Whitespace
         THEN (IF word = <<>> THEN <<>> ELSE <<word>>) \o WordsFrom(Tail(s), <<>>)
    ELSE WordsFrom(Tail(s), word)
WordsOf(s) == WordsFrom(s, <<>>)
\* two texts equal modulo letter case, non-letter characters and amount of whitespace
EquivalentTexts(a, b) == WordsOf(a) = WordsOf(b)
\* only a-z and single spaces, no space at either end
IsKey(k) ==
    /\ \A i \in DOMAIN k : k[i] \in Range(LowerLetters) \/ k[i] = " "
    /\ \A i \in DOMAIN k : k[i] = " " => (i > 1 /\ i < Len(k) /\ k[i + 1] # " ")

\* C18: texts that are equivalent modulo letter case, non-letter characters and amount
\* of whitespace normalize to the same key, and every key consists of the letters a-z
\* and single spaces only, without a leading or trailing space (the empty string for
\* a text without letters).
C18_NormalizeCollapsesEquivalents ==
    normPc = "normalized" =>
        /\ EquivalentTexts(normIn.a, normIn.b) => normOut.a = normOut.b
        /\ IsKey(normOut.a) /\ IsKey(normOut.b)
        /\ (\A i \in DOMAIN normIn.a : ~IsLetter(normIn.a[i])) => normOut.a = <<>>
\* two different texts that are equivalent, with a space inside their common key
C18_Witness ==
    /\ normPc = "normalized"
    /\ normIn.a # normIn.b /\ EquivalentTexts(normIn.a, normIn.b)
    /\ \E i \in DOMAIN normOut.a : normOut.a[i] = " "
    /\ \E i \in DOMAIN normIn.b : normIn.b[i] = "\t"

\* C19: the ingredient list used for the cache key and sent to the external catalog
\* contains "salt" and "oil", no empty key and no key twice.
C19_FinalIngredientsWellFormed ==
    keyPc = "derived" =>
        \A k \in DOMAIN keyOut :
            LET keys == split(keyOut[k].finalIngredients, ",") IN
            /\ \E i \in DOMAIN keys : keys[i] = <<"s","a","l","t">>
            /\ \E i \in DOMAIN keys : keys[i] = <<"o","i","l">>
            /\ \A i \in DOMAIN keys : keys[i] # <<>>
            /\ \A i, j \in DOMAIN keys : keys[i] = keys[j] => i = j
\* the user typed salt and oil in one request and the same ingredient twice, in
\* different case and punctuation, in the other
C19_Witness ==
    /\ keyPc = "derived"
    /\ keyIn.a = <<"s","a","l","t",",","O","i","l">>
    /\ keyIn.b = <<"B",","," ","b","!">>

\* two strings equal up to letter case
SameIgnoringCase(a, b) ==
    Len(a) = Len(b) /\ \A i \in DOMAIN a : FoldCase(a[i]) = FoldCase(b[i])
\* the requested cuisines as given in the comma-separated cuisine parameter
RequestedCuisines(query) ==
    IF ~Has(query, "cuisine") \/ query.cuisine = <<>> THEN <<>>
    ELSE split(query.cuisine, ",")
CandidateCuisines(raw) == IF Has(raw, "cuisines") THEN raw.cuisines ELSE <<>>

\* C20: matchesCuisine of a candidate is true exactly when the requested cuisine list
\* is empty or one of the candidate's cuisines equals, ignoring letter case, one of
\* the requested cuisines as given.
C20_MatchesCuisine ==
    shapePc = "shaped" =>
        (shapeOut.matchesCuisine <=>
            \/ RequestedCuisines(shapeIn.query) = <<>>
            \/ \E i \in DOMAIN CandidateCuisines(shapeIn.raw) :
                   \E j \in DOMAIN RequestedCuisines(shapeIn.query) :
                       SameIgnoringCase(CandidateCuisines(shapeIn.raw)[i],
                                        RequestedCuisines(shapeIn.query)[j]))
\* a candidate whose second cuisine matches the request in another letter case
C20_Witness ==
    /\ shapePc = "shaped"
    /\ shapeOut.matchesCuisine
    /\ shapeIn.query = Prop("cuisine", <<"I","t">>)
    /\ shapeIn.raw = [id |-> 1, cuisines |-> << <<"F","r">>, <<"I","T">> >>]


(***************************************************************************)
(* Properties of the recipe card's substitute cleaning                     *)
(***************************************************************************)
Least(S) == CHOOSE x \in S : \A y \in S : x <= y
Greatest(S) == CHOOSE x \in S : \A y \in S : x >= y
\* what is left of s after its "<label> = " prefix: the text behind the last "=",
\* from its first character that is not whitespace
AfterLabel(s) ==
    LET marks == {i \in DOMAIN s : s[i] = "="}
        last == IF marks = {} THEN 0 ELSE Greatest(marks)
        rest == {i \in (last + 1)..Len(s) : s[i] \notin Whitespace}
    IN  IF marks = {} THEN s
        ELSE IF rest = {} THEN <<>>
        ELSE SubSeq(s, Least(rest), Len(s))
\* s[i..d] is a whole number: a run of digits
IsWholeNumber(s, i, d) == \A k \in i..d : s[k] \in Range(Digits)
\* s[i..d] is a number: runs of digits with single "/" or "." between them, as in
\* 2, 1/2, 1.5
IsNumber(s, i, d) ==
    /\ s[i] \in Range(Digits)
    /\ s[d] \in Range(Digits)
    /\ \A k \in i..d :
           \/ s[k] \in Range(Digits)
           \/ s[k] \in {"/", "."} /\ s[k - 1] \in Range(Digits) /\ s[k + 1] \in Range(Digits)
\* s[i..j] is a quantity+unit token: a quantity that starts a word, optional
\* whitespace, and a unit that ends a word, in any letter case
IsToken(s, i, j, IsQuantity(_, _, _)) ==
    /\ s[i] \in Range(Digits)
    /\ i = 1 \/ ~IsWordChar(s[i - 1])
    /\ j = Len(s) \/ ~IsWordChar(s[j + 1])
    /\ \E u \in Units :
           LET p == j - Len(u) + 1 IN
           /\ p > i
           /\ toLowerCase(SubSeq(s, p, j)) = u
           /\ \E d \in i..(p - 1) :
                  /\ IsQuantity(s, i, d)
                  /\ \A k \in (d + 1)..(p - 1) : s[k] \in Whitespace
\* the characters of s outside its quantity+unit tokens, in their order
WithoutTokens(s, IsQuantity(_, _, _)) ==
    LET tokens == {t \in (DOMAIN s) \X (DOMAIN s) :
                      t[1] < t[2] /\ IsToken(s, t[1], t[2], IsQuantity)}
        keep == {k \in DOMAIN s : \A t \in tokens : k < t[1] \/ k > t[2]}
    IN  [n \in 1..Cardinality(keep) |->
            s[CHOOSE k \in keep : Cardinality({m \in keep : m <= k}) = n]]
\* s without the whitespace at its two ends
Trimmed(s) ==
    LET solid == {i \in DOMAIN s : s[i] \notin Whitespace} IN
    IF solid = {} THEN <<>> ELSE SubSeq(s, Least(solid), Greatest(solid))
\* the members of list that are not empty and did not occur earlier, in their order
FirstSeen(list) ==
    LET keep == {i \in DOMAIN list :
                    list[i] # <<>> /\ \A j \in 1..(i - 1) : list[j] # list[i]}
    IN  [n \in 1..Cardinality(keep) |->
            list[CHOOSE k \in keep : Cardinality({m \in keep : m <= k}) = n]]
CleanedAsClaimed(raw, IsQuantity(_, _, _)) ==
    FirstSeen([i \in DOMAIN raw |-> Trimmed(WithoutTokens(AfterLabel(raw[i]), IsQuantity))])
OatMilkLabelled == <<"2"," ","c","u","p","s"," ","="," ","o","a","t"," ","m","i","l","k">>
OatMilk == <<"o","a","t"," ","m","i","l","k">>

\* C21: cleaning a list of raw substitute strings removes from each string its
\* "<label> = " prefix and every quantity+unit token, trims it, drops the strings
\* that became empty and removes later duplicates in first-seen order; in
\* particular "2 cups = oat milk" cleans to "oat milk"
C21_CleaningAsClaimed ==
    cleanPc = "cleaned" =>
        /\ cleanOut = CleanedAsClaimed(cleanIn, IsNumber)
        /\ cleanIn = <<OatMilkLabelled>> => cleanOut = <<OatMilk>>
\* the same with only the last run of digits before a unit taken as the quantity
CleaningOfWholeNumbers ==
    cleanPc = "cleaned" => cleanOut = CleanedAsClaimed(cleanIn, IsWholeNumber)


(***************************************************************************)
(* Properties of the caches under concurrent requests                      *)
(***************************************************************************)
\* value is the complete result of the single request owner, which derived key: owner
\* missed the cache, its primary call succeeded, every one of its detail lookups has
\* ended, and value is its own candidates, each with a sourceUrl, ranked and truncated
IsResultOf(value, owner, key) ==
    LET rec == sreq[owner]
        count == Min(numberOf(rec.query), Len(rec.recipes))
    IN  /\ MissedAndSucceeded(rec)
        /\ rec.cacheKey = key
        /\ rec.status = 200 /\ rec.body = value
        /\ Len(rec.recipes) = Len(rec.data)
        /\ Len(rec.detailLog) = Len(rec.data)
        /\ \A i \in DOMAIN rec.recipes :
               /\ rec.recipes[i].id = rec.data[i].id
               /\ rec.recipes[i].sourceUrl # JsNull
               /\ rec.recipes[i].sourceUrl \in {"#", rec.detailLog[i].sourceUrl}
        /\ value = SubSeq(sortRecipes(rec.recipes), 1, count)
        /\ \A i, j \in DOMAIN value : i < j => ~RanksHigher(value[j], value[i])
        /\ \A i \in DOMAIN value : value[i].sourceUrl # JsNull
\* a detail lookup or the primary call of the request is outstanding
Outstanding(rec) == rec.pc \in {"awaitPrimary", "awaitDetail"}

\* C22: under any interleaving of concurrent searches, every value in the recipe cache
\* under a key K and every sequence returned is the complete result of one single
\* request that derived K, ranked, truncated and with every sourceUrl non-null; nothing
\* is returned or cached for a request one of whose lookups is still outstanding
C22_OnlyCompleteResults ==
    /\ \A key \in DOMAIN recipeCache :
           \E owner \in Reqs : IsResultOf(recipeCache[key], owner, key)
    /\ \A r \in Reqs :
           (sreq[r].pc = "done" /\ sreq[r].status = 200) =>
               \E owner \in Reqs :
                   /\ IsResultOf(sreq[r].body, owner, sreq[r].cacheKey)
                   /\ ~sreq[r].hit => owner = r
    /\ \A r \in Reqs :
           Outstanding(sreq[r]) =>
               /\ sreq[r].status = 0
               /\ \A key \in DOMAIN recipeCache :
                      \E owner \in Reqs \ {r} : IsResultOf(recipeCache[key], owner, key)
\* two requests for one key are under way at once, a third was served from the cache,
\* and the cache holds a result of two candidates for the key
C22_Witness ==
    \E a, b, c \in Reqs :
        /\ a # b
        /\ sreq[a].cacheKey = sreq[b].cacheKey
        /\ MissedAndSucceeded(sreq[a]) /\ Len(sreq[a].body) = 2
        /\ Outstanding(sreq[b]) /\ sreq[b].pc = "awaitDetail"
        /\ sreq[c].hit /\ sreq[c].body = sreq[a].body
        /\ recipeCache[sreq[a].cacheKey] = sreq[a].body


\* every entry of the cache is still there after the step, with the same value
EntriesKept(cache, cacheAfter) ==
    \A key \in DOMAIN cache : key \in DOMAIN cacheAfter /\ cacheAfter[key] = cache[key]

\* C23: once the recipe cache, or the substitution cache, holds an entry for a key,
\* the entry is never removed and its value never changes, whatever the sequence and
\* interleaving of search and substitution requests, several in-flight requests that
\* all missed the cache for the same key included
C23_EntriesNeverChange ==
    [][EntriesKept(recipeCache, recipeCache') /\ EntriesKept(subsCache, subsCache')]_vars


\* the lowercase form of an ingredient
LowerForm(s) == [i \in DOMAIN s |-> FoldCase(s[i])]

\* C24: in every reachable state the keys of the substitution cache are disjoint from
\* the keys of the static dictionary: an ingredient whose lowercase form is a
\* dictionary key is never written to the cache, because the external tier, the only
\* writer, is reached only after a dictionary miss
C24_CacheDisjointFromDictionary ==
    /\ DOMAIN subsCache \cap DOMAIN defaultSubs = {}
    /\ \A key \in DOMAIN subsCache : LowerForm(key) \notin DOMAIN defaultSubs
    /\ \A r \in Reqs :
           subreq[r].externalCalls > 0 =>
               LowerForm(subreq[r].query.ingredient) \notin DOMAIN defaultSubs
\* the cache holds a list stored by the external tier, and a request for "Milk" was
\* answered from the dictionary afterwards and wrote nothing
C24_Witness ==
    \E r, d \in Reqs :
        /\ r < d
        /\ StoredFromExternal(subreq[r]) /\ subreq[r].lower \in DOMAIN subsCache
        /\ subreq[d].pc = "done" /\ subreq[d].tier = "dictionary"
        /\ subreq[d].query.ingredient = <<"M","i","l","k">>
        /\ subreq[d].lower \notin DOMAIN subsCache


(***************************************************************************)
(* Properties of the recipe card's substitute button                       *)
(***************************************************************************)
\* the list of ing is shown as open, its button as loading
IsOpen(open, ing) == ing \in DOMAIN open /\ open[ing]
IsLoading(loading, ing) == ing \in DOMAIN loading /\ loading[ing]
\* a non-empty substitute list is stored for ing
HasList(stored, ing) == ing \in DOMAIN stored /\ Len(stored[ing]) > 0
\* the click on ing's button, seen from outside: only a click changes openSubs
ClickedClosed(ing) == ~IsOpen(openSubs, ing) /\ IsOpen(openSubs', ing)
ClickedOpen(ing) == IsOpen(openSubs, ing) /\ ~IsOpen(openSubs', ing)
OthersUntouched(ing) ==
    \A other \in CardIngredients \ {ing} :
        /\ inFlight'[other] = inFlight[other]
        /\ IsLoading(loadingSubs', other) = IsLoading(loadingSubs, other)
        /\ IsOpen(openSubs', other) = IsOpen(openSubs, other)

\* C25: for every missing ingredient of a recipe card, a click on the button while the
\* list is closed starts exactly one substitution fetch and sets the loading flag; the
\* button is disabled while loading, so at most one fetch per ingredient is in flight;
\* a click while the list is open only closes it, without a fetch; and every fetch
\* started, whatever its outcome, eventually clears the loading flag and leaves a
\* non-empty substitute list stored for the ingredient
C25_ButtonAndFetch ==
    /\ [][\A ing \in CardIngredients :
             /\ ClickedClosed(ing) =>
                    /\ inFlight'[ing] = inFlight[ing] + 1
                    /\ IsLoading(loadingSubs', ing)
                    /\ subs' = subs
                    /\ OthersUntouched(ing)
             /\ ClickedOpen(ing) =>
                    /\ inFlight' = inFlight
                    /\ loadingSubs' = loadingSubs
                    /\ subs' = subs
                    /\ OthersUntouched(ing)
             /\ inFlight'[ing] > inFlight[ing] =>
                    ClickedClosed(ing) /\ ~IsLoading(loadingSubs, ing)
             /\ inFlight'[ing] < inFlight[ing] =>
                    ~IsLoading(loadingSubs', ing) /\ HasList(subs', ing)]_vars
    /\ [](\A ing \in CardIngredients :
             /\ inFlight[ing] <= 1
             /\ inFlight[ing] = 1 <=> IsLoading(loadingSubs, ing))
    /\ \A ing \in CardIngredients :
           (inFlight[ing] > 0) ~>
               (inFlight[ing] = 0 /\ ~IsLoading(loadingSubs, ing) /\ HasList(subs, ing))
\* the fetch for "kale" has ended with a list stored and its list was closed again by a
\* click, while the fetch for "egg" is in flight with its button loading
C25_Witness ==
    LET kale == <<"k","a","l","e">>
        egg == <<"e","g","g">>
    IN  /\ inFlight[kale] = 0 /\ HasList(subs, kale)
        /\ kale \in DOMAIN loadingSubs /\ ~loadingSubs[kale]
        /\ kale \in DOMAIN openSubs /\ ~openSubs[kale]
        /\ inFlight[egg] = 1 /\ IsLoading(loadingSubs, egg) /\ IsOpen(openSubs, egg)

=============================================================================
